---- MODULE Spec2Model ----
(***************************************************************************)
(* Session-authentication gateway of studentbackendflaskpsql.              *)
(*                                                                         *)
(* descope_auth_test.py : sso_callback (login), get_user_data (guard),     *)
(*                        logout, users table in PostgreSQL.               *)
(* test_auth_app.py     : login with the stub verifier, protected_data,    *)
(*                        logout.                                          *)
(*                                                                         *)
(* Time is counted in ticks, TicksPerSecond of them to the second:         *)
(* datetime.utcnow() and CURRENT_TIMESTAMP have sub-second resolution,     *)
(* while the exp claim of a JWT is a whole number of seconds.              *)
(***************************************************************************)
EXTENDS Integers, Sequences, FiniteSets, TLC

VARIABLES
    now,            \* wall clock, in ticks
    advances,       \* number of clock advances so far (bounded)
    descope_client, \* TRUE when DescopeClient(...) was constructed at import
    users,          \* committed rows of table users, in insertion order
    login,          \* login[p]: the state of login request p (sso_callback)
    issued,         \* session credentials minted by successful logins
    jar,            \* the sessionToken cookie the browser holds
    lastResp,       \* the last response of get_user_data or logout
    stubEnv,        \* test_auth_app: app.env
    stubIssued,     \* test_auth_app: session credentials minted by login
    stubJar,        \* test_auth_app: the cookie the browser holds
    stubResp,       \* test_auth_app: the last response of any endpoint
    students,       \* app.py: committed rows of table students
    nextId,         \* app.py: next value of the SERIAL sequence of students.id
    req,            \* app.py: req[w]: the state of students request w
    preflight,      \* the last response of handle_options_requests
    keyCache,       \* Signing-Key Cache: the cached key set and its fetchedAt
    keyCall,        \* keyCall[c]: the state of getKeys call c
    jwks            \* the key set the identity provider publishes now

vars == <<now, advances, descope_client, users, login, issued, jar,
          lastResp, stubEnv, stubIssued, stubJar, stubResp,
          students, nextId, req, preflight, keyCache, keyCall, jwks>>

mainVars == <<descope_client, users, login, issued, jar, lastResp>>
stubVars == <<stubEnv, stubIssued, stubJar, stubResp>>
studentVars == <<students, nextId, req>>
corsVars == <<preflight>>
keyVars == <<keyCache, keyCall, jwks>>

----------------------------------------------------------------------------
\* Bounds of the model
NumLogins == 2
NumRequests == 2
NumCallers == 2
MaxKeySets == 2
MaxAdvances == 3
TicksPerSecond == 2
MaxSessions == 2

Logins == 1..NumLogins

\* timedelta(hours=24) of the session payload, in seconds
SESSION_SECONDS == 24 * 3600
\* max_age=timedelta(hours=24) of the cookie, in seconds
COOKIE_MAX_AGE == 24 * 3600
\* timedelta(hours=1) of the stub app's session payload, in seconds
STUB_SESSION_SECONDS == 1 * 3600
\* max_age=3600 of the stub app's cookie
STUB_COOKIE_MAX_AGE == 3600

APP_SECRET_KEY == "APP_SECRET_KEY"
JWT_SECRET == "JWT_SECRET"
WRONG_KEY == "attacker_key"

----------------------------------------------------------------------------
\* JSON Web Tokens (PyJWT), HS256

\* The HMAC of a payload under a key: equal exactly for equal key and payload.
HS256(key, payload) == <<key, payload>>

\* timegm(dt.utctimetuple()): a datetime as whole seconds, fraction dropped.
NumericDate(t) == t \div TicksPerSecond

\* jwt.encode(payload, key, algorithm='HS256')
JwtEncode(payload, key) ==
    [form |-> "jwt", payload |-> payload, sig |-> HS256(key, payload)]

NoCookie == [form |-> "none"]
EmptyCookie == [form |-> "empty"]
GarbageCookie == [form |-> "garbage"]

\* PyJWT _validate_exp: exp <= now raises ExpiredSignatureError
JwtExpired(exp, t) == exp * TicksPerSecond <= t

\* Mutant: decoding with options={"verify_signature": False}
JwtDecode_NoVerify(token, key, t) ==
    IF token.form # "jwt" THEN [ok |-> FALSE, error |-> "InvalidTokenError"]
    ELSE IF JwtExpired(token.payload.exp, t)
         THEN [ok |-> FALSE, error |-> "ExpiredSignatureError"]
    ELSE [ok |-> TRUE, payload |-> token.payload]

\* jwt.decode(token, key, algorithms=['HS256']): the signature is verified
\* first, the claims (exp) after it.
JwtDecode(token, key, t) ==
    IF token.form # "jwt" THEN [ok |-> FALSE, error |-> "InvalidTokenError"]
    ELSE IF token.sig # HS256(key, token.payload)
         THEN [ok |-> FALSE, error |-> "InvalidTokenError"]
    ELSE IF JwtExpired(token.payload.exp, t)
         THEN [ok |-> FALSE, error |-> "ExpiredSignatureError"]
    ELSE [ok |-> TRUE, payload |-> token.payload]

----------------------------------------------------------------------------
\* HTTP responses

JsonBody(msg, details, email, name) ==
    [msg |-> msg, details |-> details, email |-> email, name |-> name]

NoSetCookie == [name |-> "none"]

Response(status, body, cookie) ==
    [status |-> status, body |-> body, cookie |-> cookie]

NoResponse == Response(0, JsonBody("", "", "", ""), NoSetCookie)

\* jsonify({"error": msg}), status
ErrorResponse(status, msg) ==
    Response(status, JsonBody(msg, "", "", ""), NoSetCookie)

----------------------------------------------------------------------------
\* Requests to POST /api/auth/descope-sso-callback

MISSING == "<missing>"

\* kind: "nojson" (no JSON body), "nofield" (no sessionToken field),
\* "empty" (sessionToken is ""), "token" (a Descope JWT).  verdict is what
\* descope_client.validate_jwt makes of the JWT.
Body(kind, verdict, sub, email, name) ==
    [kind |-> kind, verdict |-> verdict, sub |-> sub, email |-> email,
     name |-> name]

ValidToken == Body("token", "valid", "usr_123", "a@b.com", "Ann")

Bodies ==
    { Body("nojson", "", "", "", ""),
      Body("nofield", "", "", "", ""),
      Body("empty", "", "", "", ""),
      ValidToken,
      Body("token", "valid", "usr_456", MISSING, MISSING),
      Body("token", "bad signature", "usr_123", "a@b.com", "Ann"),
      Body("token", "expired", "usr_123", "a@b.com", "Ann") }

\* Tokens of a returning user whose profile changed at the identity
\* provider, and of another user
RenamedToken == Body("token", "valid", "usr_123", "ann@new.com", "Ann B")
OtherToken == Body("token", "valid", "usr_789", "z@b.com", "Zed")
ReturningBodies ==
    { ValidToken, RenamedToken, OtherToken,
      Body("token", "expired", "usr_123", "a@b.com", "Ann") }

IdleLogin ==
    [pc |-> "idle", body |-> Body("", "", "", "", ""), failure |-> "none",
     sub |-> "", email |-> "", name |-> "",
     conn |-> "none", user |-> FALSE, ts |-> 0, pend |-> "none",
     committed |-> FALSE, fault |-> FALSE, issuedAt |-> 0,
     resp |-> NoResponse]

\* A return statement of sso_callback: the request is answered.
Answered(l, failure, resp) ==
    [l EXCEPT !.pc = "done", !.failure = failure, !.resp = resp]

\* except Exception as e: ... 500
InternalError(l) ==
    Answered(l, "unexpected",
             ErrorResponse(500, "An internal server error occurred."))

\* Lines 90-105: everything sso_callback does before it touches storage.
SsoReceive(l, b, client) ==
    LET r == [l EXCEPT !.body = b] IN
    IF ~client
      THEN Answered(r, "not_initialised",
                    ErrorResponse(500, "Descope client not initialized."))
    ELSE IF b.kind = "nojson"
      THEN InternalError(r)
    ELSE IF b.kind \in {"nofield", "empty"}
      THEN Answered(r, "no_token",
                    ErrorResponse(400, "No session token provided."))
    ELSE IF b.verdict # "valid"
      THEN Answered(r, "verification",
                    Response(401,
                             JsonBody("Authentication failed", b.verdict, "", ""),
                             NoSetCookie))
    ELSE IF b.email = MISSING
      THEN InternalError(r)
    ELSE [r EXCEPT !.pc = "connect", !.sub = b.sub, !.email = b.email,
                   !.name = b.name]

LoginReceive(p, b) ==
    /\ login[p].pc = "idle"
    /\ login' = [login EXCEPT ![p] = SsoReceive(login[p], b, descope_client)]
    /\ UNCHANGED <<now, advances, descope_client, users, issued, jar,
                   lastResp, stubVars, studentVars, corsVars, keyVars>>

----------------------------------------------------------------------------
\* Table users in PostgreSQL (READ COMMITTED), one transaction per login

UserRow(id, email, name, ts) ==
    [descope_user_id |-> id, email |-> email, name |-> name,
     created_at |-> ts, last_login_at |-> ts]

\* SELECT descope_user_id FROM users WHERE descope_user_id = %s; fetchone()
SelectUser(rows, id) ==
    \E i \in DOMAIN rows : rows[i].descope_user_id = id

\* descope_user_id VARCHAR(255) PRIMARY KEY
UniqueViolation(rows, id) == SelectUser(rows, id)

\* An INSERT waits for an uncommitted INSERT of the same key by another
\* transaction; an UPDATE waits for the row lock of an uncommitted UPDATE.
WriteBlocked(p, kind) ==
    \E q \in Logins \ {p} :
        /\ login[q].pend = kind
        /\ login[q].sub = login[p].sub

\* INSERT INTO users (descope_user_id, email, name): both timestamps default
\* to CURRENT_TIMESTAMP, the start of the transaction.
ApplyInsert(rows, l) == Append(rows, UserRow(l.sub, l.email, l.name, l.ts))

\* Mutant: the UPDATE refreshes the profile columns from the token as well.
ApplyUpdate_RefreshProfile(rows, l) ==
    [i \in DOMAIN rows |->
        IF rows[i].descope_user_id = l.sub
          THEN [rows[i] EXCEPT !.last_login_at = l.ts, !.email = l.email,
                               !.name = l.name]
          ELSE rows[i]]

\* UPDATE users SET last_login_at = CURRENT_TIMESTAMP WHERE descope_user_id = %s
ApplyUpdate(rows, l) ==
    [i \in DOMAIN rows |->
        IF rows[i].descope_user_id = l.sub
          THEN [rows[i] EXCEPT !.last_login_at = l.ts]
          ELSE rows[i]]

\* Mutant: the handler logs the error and does not return.
DbError_NoReturn(l) ==
    [l EXCEPT !.pc = "issue", !.failure = "storage", !.pend = "none",
              !.conn = "closed"]

\* Mutant: the handler answers without conn.rollback() and the connection
\* is left as it is.
DbError_NoRollback(l) ==
    Answered(l, "storage", ErrorResponse(500, "Database operation failed."))

\* except Exception as db_error: conn.rollback(); return 500; finally: close
DbError(l) ==
    [Answered(l, "storage", ErrorResponse(500, "Database operation failed."))
        EXCEPT !.pend = "none", !.conn = "closed"]

\* A storage call that raises for a reason of its own (network, server).
DbFault(l) == [DbError(l) EXCEPT !.fault = TRUE]

LoginFrame == UNCHANGED <<now, advances, descope_client, issued, jar,
                          lastResp, stubVars, studentVars, corsVars, keyVars>>

\* conn = psycopg2.connect(NEON_DB_URL).  When it raises, conn is still None
\* and conn.rollback() in the handler raises in turn: the outer handler answers.
LoginConnect(p) ==
    /\ login[p].pc = "connect"
    /\ \/ login' = [login EXCEPT ![p].pc = "select", ![p].conn = "open"]
       \/ login' = [login EXCEPT ![p] =
                        [InternalError(login[p]) EXCEPT !.failure = "storage",
                                                        !.fault = TRUE]]
    /\ UNCHANGED users
    /\ LoginFrame

\* The first execute opens the transaction; CURRENT_TIMESTAMP is its start.
LoginSelect(p) ==
    /\ login[p].pc = "select"
    /\ \/ login' = [login EXCEPT ![p].pc = "write", ![p].ts = now,
                                 ![p].user = SelectUser(users, login[p].sub)]
       \/ login' = [login EXCEPT ![p] = DbFault(login[p])]
    /\ UNCHANGED users
    /\ LoginFrame

\* if user: UPDATE ... else: INSERT ...
SsoWrite(p) ==
    IF login[p].user
      THEN /\ ~WriteBlocked(p, "update")
           /\ login' = [login EXCEPT ![p].pc = "commit", ![p].pend = "update"]
      ELSE /\ ~WriteBlocked(p, "insert")
           /\ IF UniqueViolation(users, login[p].sub)
                THEN login' = [login EXCEPT ![p] = DbError(login[p])]
                ELSE login' = [login EXCEPT ![p].pc = "commit",
                                            ![p].pend = "insert"]

LoginWrite(p) ==
    /\ login[p].pc = "write"
    /\ \/ SsoWrite(p)
       \/ login' = [login EXCEPT ![p] = DbFault(login[p])]
    /\ UNCHANGED users
    /\ LoginFrame

\* Mutant: conn.commit() is left out; closing the connection drops the write.
SsoCommit_NoCommit(p) ==
    /\ UNCHANGED users
    /\ login' = [login EXCEPT ![p].pc = "issue", ![p].pend = "none",
                              ![p].conn = "closed"]

\* conn.commit(), then finally: conn.close()
SsoCommit(p) ==
    /\ users' = IF login[p].pend = "insert"
                  THEN ApplyInsert(users, login[p])
                  ELSE ApplyUpdate(users, login[p])
    /\ login' = [login EXCEPT ![p].pc = "issue", ![p].pend = "none",
                              ![p].committed = TRUE, ![p].conn = "closed"]

LoginCommit(p) ==
    /\ login[p].pc = "commit"
    /\ \/ SsoCommit(p)
       \/ /\ login' = [login EXCEPT ![p] = DbFault(login[p])]
          /\ UNCHANGED users
    /\ LoginFrame

\* Mutant: the display name is stored where the email belongs.
SessionPayload_NameAsEmail(l, t) ==
    [sub |-> l.sub, email |-> l.name,
     exp |-> NumericDate(t) + SESSION_SECONDS]

\* Mutant: the one-hour lifetime of the other app variant.
SessionPayload_OneHour(l, t) ==
    [sub |-> l.sub, email |-> l.email,
     exp |-> NumericDate(t) + STUB_SESSION_SECONDS]

\* Lines 143-148: the session payload and its JWT
SessionPayload(l, t) ==
    [sub |-> l.sub, email |-> l.email,
     exp |-> NumericDate(t) + SESSION_SECONDS]

\* Lines 159-166: response.set_cookie('sessionToken', ...)
SessionCookie(token) ==
    [name |-> "sessionToken", value |-> token, httponly |-> TRUE,
     samesite |-> "Lax", secure |-> TRUE, max_age |-> COOKIE_MAX_AGE]

\* Lines 143-172
SsoIssue(l, t) ==
    LET token == JwtEncode(SessionPayload(l, t), APP_SECRET_KEY) IN
    [l EXCEPT !.pc = "done", !.issuedAt = t,
              !.resp = Response(200,
                                JsonBody("Login successful", "", l.email, l.name),
                                SessionCookie(token))]

LoginIssue(p) ==
    /\ login[p].pc = "issue"
    /\ login' = [login EXCEPT ![p] = SsoIssue(login[p], now)]
    /\ issued' = issued \cup {login'[p].resp.cookie.value}
    /\ jar' = login'[p].resp.cookie.value
    /\ UNCHANGED <<now, advances, descope_client, users, lastResp, stubVars, studentVars, corsVars, keyVars>>

\* The worker that answered takes the next request.
LoginNext(p) ==
    /\ login[p].pc = "done"
    /\ login' = [login EXCEPT ![p] = IdleLogin]
    /\ UNCHANGED users
    /\ LoginFrame

----------------------------------------------------------------------------
\* GET /api/user-data and POST /api/logout

\* afterLogout: the request carries the cookie that the logout request
\* answered just before it carried.
AppResponse(endpoint, cookie, t, status, msg, email, reached, setCookie) ==
    [endpoint |-> endpoint, cookie |-> cookie, at |-> t, status |-> status,
     msg |-> msg, email |-> email, reached |-> reached,
     setCookie |-> setCookie, afterLogout |-> FALSE]

GuardResponse(cookie, t, status, msg, email, reached) ==
    AppResponse("user-data", cookie, t, status, msg, email, reached,
                NoSetCookie)

\* Mutant: except jwt.InvalidTokenError comes first and catches its subclass
\* ExpiredSignatureError too.
GetUserData_InvalidFirst(cookie, t) ==
    IF cookie.form \in {"none", "empty"}
      THEN GuardResponse(cookie, t, 401, "Unauthorized", "", FALSE)
    ELSE LET d == JwtDecode(cookie, APP_SECRET_KEY, t) IN
      IF d.ok
        THEN GuardResponse(cookie, t, 200, "Hello", d.payload.email, TRUE)
      ELSE GuardResponse(cookie, t, 401, "Invalid session token.", "", FALSE)

\* Mutant: the cookie is decoded with the other app variant's secret.
GetUserData_OtherSecret(cookie, t) ==
    IF cookie.form \in {"none", "empty"}
      THEN GuardResponse(cookie, t, 401, "Unauthorized", "", FALSE)
    ELSE LET d == JwtDecode(cookie, JWT_SECRET, t) IN
      IF d.ok
        THEN GuardResponse(cookie, t, 200, "Hello", d.payload.email, TRUE)
      ELSE IF d.error = "ExpiredSignatureError"
        THEN GuardResponse(cookie, t, 401,
                           "Session expired, please log in again.", "", FALSE)
      ELSE GuardResponse(cookie, t, 401, "Invalid session token.", "", FALSE)

\* get_user_data, lines 190-219.  reached: the greeting was built.
GetUserData(cookie, t) ==
    IF cookie.form \in {"none", "empty"}
      THEN GuardResponse(cookie, t, 401, "Unauthorized", "", FALSE)
    ELSE LET d == JwtDecode(cookie, APP_SECRET_KEY, t) IN
      IF d.ok
        THEN GuardResponse(cookie, t, 200, "Hello", d.payload.email, TRUE)
      ELSE IF d.error = "ExpiredSignatureError"
        THEN GuardResponse(cookie, t, 401,
                           "Session expired, please log in again.", "", FALSE)
      ELSE GuardResponse(cookie, t, 401, "Invalid session token.", "", FALSE)

\* What a client can make of a credential without the server's secret:
\* change a claim and keep the signature, or sign again with another key.
Forgeries(c) ==
    { [c EXCEPT !.payload.email = "evil@x.com"],
      JwtEncode(c.payload, WRONG_KEY) }

\* Credentials minted by an outsider, expired and not.
Minted ==
    { JwtEncode([sub |-> "usr_123", email |-> "a@b.com", exp |-> e], WRONG_KEY) :
        e \in {0, 10 * SESSION_SECONDS} }

\* The cookies a request to this app can carry.
Cookies ==
    {NoCookie, EmptyCookie, GarbageCookie} \cup issued \cup Minted
        \cup UNION {Forgeries(c) : c \in issued}

\* Mutant: the guard records the visit in the user's row.
Guard_TouchesLastSeen(c) ==
    /\ lastResp' = [GetUserData(c, now) EXCEPT
                        !.afterLogout = /\ lastResp.endpoint = "logout"
                                        /\ lastResp.cookie = c]
    /\ users' = IF lastResp'.status = 200
                  THEN ApplyUpdate(users, [sub |-> c.payload.sub, ts |-> now])
                  ELSE users
    /\ UNCHANGED <<now, advances, descope_client, login, issued, jar,
                   stubVars, studentVars, corsVars, keyVars>>

Guard(c) ==
    /\ lastResp' = [GetUserData(c, now) EXCEPT
                        !.afterLogout = /\ lastResp.endpoint = "logout"
                                        /\ lastResp.cookie = c]
    /\ UNCHANGED <<now, advances, descope_client, users, login, issued, jar,
                   stubVars, studentVars, corsVars, keyVars>>

\* response.delete_cookie('sessionToken', httponly=True, samesite='Lax',
\* secure=True): an empty value with Max-Age=0
DeletedCookie(httponly, samesite, secure) ==
    [name |-> "sessionToken", value |-> EmptyCookie, httponly |-> httponly,
     samesite |-> samesite, secure |-> secure, max_age |-> 0]

\* Mutant: logout guarded like the protected resource.
LogoutResponse_RequiresSession(cookie, t) ==
    IF cookie.form = "jwt" /\ JwtDecode(cookie, APP_SECRET_KEY, t).ok
      THEN AppResponse("logout", cookie, t, 200, "Successfully logged out.",
                       "", FALSE, DeletedCookie(TRUE, "Lax", TRUE))
      ELSE AppResponse("logout", cookie, t, 401, "Unauthorized", "", FALSE,
                       NoSetCookie)

\* logout, lines 230-243: the request's cookie is not read.
LogoutResponse(cookie, t) ==
    AppResponse("logout", cookie, t, 200, "Successfully logged out.", "",
                FALSE, DeletedCookie(TRUE, "Lax", TRUE))

\* The cookies a logout request of the browser can carry.
LogoutCookies == {jar, GarbageCookie}

Logout(c) ==
    /\ lastResp' = LogoutResponse(c, now)
    /\ jar' = NoCookie
    /\ UNCHANGED <<now, advances, descope_client, users, login, issued,
                   stubVars, studentVars, corsVars, keyVars>>

----------------------------------------------------------------------------
\* The clock

AdvanceClock(d) ==
    /\ advances < MaxAdvances
    /\ advances' = advances + 1
    /\ now' = now + d
    /\ UNCHANGED <<mainVars, stubVars, studentVars, corsVars, keyVars>>

Tick == AdvanceClock(1)
\* One tick short of a session's lifetime
Sleep == AdvanceClock(SESSION_SECONDS * TicksPerSecond - 1)
StubSleep == AdvanceClock(STUB_SESSION_SECONDS * TicksPerSecond - 1)

----------------------------------------------------------------------------
\* test_auth_app.py

StubResponse(endpoint, cookieIn, t, status, msg, cookie, reached) ==
    [endpoint |-> endpoint, cookieIn |-> cookieIn, at |-> t, status |-> status,
     msg |-> msg, cookie |-> cookie, reached |-> reached]

NoStubResponse == StubResponse("", NoCookie, 0, 0, "", NoSetCookie, FALSE)

AuthHeaders == {"", "Basic abc", "Bearer ", "Bearer descope.jwt"}

\* verify_descope_token: any non-empty token is user descope-user-123
verify_descope_token(token) ==
    IF token # "" THEN [ok |-> TRUE, userId |-> "descope-user-123"]
    ELSE [ok |-> FALSE, userId |-> ""]

\* auth_header.split(' ')[1], for the headers of AuthHeaders
BearerToken(h) == IF h = "Bearer descope.jwt" THEN "descope.jwt" ELSE ""

\* login, lines 51-84
StubLoginResponse(h, t, env) ==
    IF h \notin {"Bearer ", "Bearer descope.jwt"}
      THEN StubResponse("login", NoCookie, t, 401,
                        "Descope token missing or malformed", NoSetCookie, FALSE)
    ELSE LET u == verify_descope_token(BearerToken(h)) IN
      IF ~u.ok
        THEN StubResponse("login", NoCookie, t, 401,
                          "Invalid or expired Descope token", NoSetCookie, FALSE)
      ELSE
        LET token == JwtEncode([user_id |-> u.userId,
                                exp |-> NumericDate(t) + STUB_SESSION_SECONDS],
                               JWT_SECRET)
        IN StubResponse("login", NoCookie, t, 200, "Logged in successfully",
                        [name |-> "sessionToken", value |-> token,
                         httponly |-> TRUE, samesite |-> "Lax",
                         secure |-> (env = "production"),
                         max_age |-> STUB_COOKIE_MAX_AGE],
                        FALSE)

StubLogin(h) ==
    /\ stubResp' = StubLoginResponse(h, now, stubEnv)
    /\ IF stubResp'.status = 200
         THEN /\ stubIssued' = stubIssued \cup {stubResp'.cookie.value}
              /\ stubJar' = stubResp'.cookie.value
         ELSE UNCHANGED <<stubIssued, stubJar>>
    /\ UNCHANGED <<now, advances, mainVars, studentVars, corsVars, keyVars, stubEnv>>

\* protected_data, lines 92-114.  reached: the welcome payload was built.
ProtectedData(cookie, t) ==
    IF cookie.form \in {"none", "empty"}
      THEN StubResponse("protected", cookie, t, 401, "Authentication required",
                        NoSetCookie, FALSE)
    ELSE LET d == JwtDecode(cookie, JWT_SECRET, t) IN
      IF d.ok
        THEN StubResponse("protected", cookie, t, 200,
                          "Welcome to the protected resource!", NoSetCookie, TRUE)
      ELSE IF d.error = "ExpiredSignatureError"
        THEN StubResponse("protected", cookie, t, 403, "Token has expired",
                          NoSetCookie, FALSE)
      ELSE StubResponse("protected", cookie, t, 403, "Invalid token",
                        NoSetCookie, FALSE)

StubCookies ==
    {NoCookie, EmptyCookie, GarbageCookie} \cup stubIssued
        \cup {JwtEncode(c.payload, WRONG_KEY) : c \in stubIssued}

StubProtected(c) ==
    /\ stubResp' = ProtectedData(c, now)
    /\ UNCHANGED <<now, advances, mainVars, studentVars, corsVars, keyVars, stubEnv, stubIssued, stubJar>>

\* logout, lines 121-124: response.delete_cookie('sessionToken')
StubLogout(c) ==
    /\ stubResp' = StubResponse("logout", c, now, 200, "Logged out successfully",
                                DeletedCookie(FALSE, "", FALSE), FALSE)
    /\ stubJar' = NoCookie
    /\ UNCHANGED <<now, advances, mainVars, studentVars, corsVars, keyVars, stubEnv, stubIssued>>

----------------------------------------------------------------------------
\* CORS preflight (src/descope_auth_test.py, before_request)

\* FRONTEND_URL = os.environ.get('FRONTEND_URL'); import fails without it
FRONTEND_URL == "https://app.example"

NoHeader == ""

\* The Origin header of a request: the frontend, another site, or none
Origins == {FRONTEND_URL, "https://evil.example", NoHeader}

PreflightResponse(origin, status, allowOrigin, allowCredentials) ==
    [origin |-> origin, status |-> status, allowOrigin |-> allowOrigin,
     allowCredentials |-> allowCredentials]

NoPreflight == PreflightResponse(NoHeader, 0, NoHeader, NoHeader)

\* handle_options_requests, lines 67-78: request.headers['Origin'] is not
\* read.
handle_options_requests(origin) ==
    IF FRONTEND_URL # ""
      THEN PreflightResponse(origin, 200, FRONTEND_URL, "true")
      ELSE PreflightResponse(origin, 500, NoHeader, NoHeader)

Preflight(origin) ==
    /\ preflight' = handle_options_requests(origin)
    /\ UNCHANGED <<now, advances, mainVars, stubVars, studentVars, keyVars>>

----------------------------------------------------------------------------
\* Signing-Key Cache (spec.md, sections 3 and 4.1): getKeys

Callers == 1..NumCallers

\* "a freshness window (fixed duration, e.g. 3600s)"
FRESHNESS_WINDOW == 3600

\* SigningKeySet: the key material (the provider's key set, by its version)
\* and fetchedAt; present is FALSE until the first successful fetch.
SigningKeySet(present, keys, fetchedAt) ==
    [present |-> present, keys |-> keys, fetchedAt |-> fetchedAt]

NoKeySet == SigningKeySet(FALSE, 0, 0)

\* A getKeys call: where it is, what it returned, and the network fetches it
\* made.
KeyCall(pc, result, failed, fetches) ==
    [pc |-> pc, result |-> result, failed |-> failed, fetches |-> fetches]

IdleCall == KeyCall("idle", 0, FALSE, 0)

\* Mutant: nothing is ever served from the cache.
KeysFresh_Never(cache, t) == FALSE

\* "a cache hit is only valid while now - fetchedAt < freshness window"
KeysFresh(cache, t) ==
    /\ cache.present
    /\ t - cache.fetchedAt < FRESHNESS_WINDOW * TicksPerSecond

\* "if a cached set exists and is within the freshness window, return it with
\* no network access"; otherwise the call starts a blocking fetch.
GetKeys(c) ==
    /\ keyCall[c].pc = "idle"
    /\ keyCall' = [keyCall EXCEPT ![c] =
                     IF KeysFresh(keyCache, now)
                       THEN KeyCall("done", keyCache.keys, FALSE, 0)
                       ELSE KeyCall("fetching", 0, FALSE, 1)]
    /\ UNCHANGED <<now, advances, mainVars, stubVars, studentVars, corsVars,
                   keyCache, jwks>>

\* The fetch ends: "on success, atomically replace the cached set and its
\* fetch timestamp; on network or malformed-response failure, return the
\* previous cache value if one exists otherwise fail with KeyFetchError".
FetchKeys(c) ==
    /\ keyCall[c].pc = "fetching"
    /\ \E ok \in BOOLEAN :
          IF ok
            THEN /\ keyCache' = SigningKeySet(TRUE, jwks, now)
                 /\ keyCall' = [keyCall EXCEPT ![c] =
                                  KeyCall("done", jwks, FALSE, 1)]
            ELSE /\ keyCache' = keyCache
                 /\ keyCall' = [keyCall EXCEPT ![c] =
                                  KeyCall("done", keyCache.keys,
                                          ~keyCache.present, 1)]
    /\ UNCHANGED <<now, advances, mainVars, stubVars, studentVars, corsVars,
                   jwks>>

\* The caller takes the result; the thread serves another verification.
KeyCallReturn(c) ==
    /\ keyCall[c].pc = "done"
    /\ keyCall' = [keyCall EXCEPT ![c] = IdleCall]
    /\ UNCHANGED <<now, advances, mainVars, stubVars, studentVars, corsVars,
                   keyCache, jwks>>

\* One tick short of the freshness window
KeySleep == AdvanceClock(FRESHNESS_WINDOW * TicksPerSecond - 1)

\* The identity provider rotates its signing keys.
RotateKeys ==
    /\ jwks < MaxKeySets
    /\ jwks' = jwks + 1
    /\ UNCHANGED <<now, advances, mainVars, stubVars, studentVars, corsVars,
                   keyCache, keyCall>>

----------------------------------------------------------------------------
\* The students application (src/app.py)

Requests == 1..NumRequests

\* A row of table students; last_name and major are carried like first_name.
StudentRow(id, first_name, email) ==
    [id |-> id, first_name |-> first_name, email |-> email]

NoStudent == StudentRow(0, "", "")

\* A request: the method and path (op, id) and the JSON body
StudentRequest(op, id, first_name, email) ==
    [op |-> op, id |-> id, first_name |-> first_name, email |-> email]

StudentRequests ==
    {StudentRequest("add", 0, "Bob", e) : e \in {"a@b.com", "c@d.com", MISSING}}
      \cup {StudentRequest("update", i, "Eve", e) :
                i \in {1, 2}, e \in {"a@b.com", "c@d.com"}}
      \cup {StudentRequest("delete", i, "", "") : i \in {2, 3}}
      \cup {StudentRequest("get", i, "", "") : i \in {1, 2}}

\* The statement a transaction has executed and not yet committed; emails
\* are the unique-index entries it holds.
PendingWrite(kind, id, first_name, email, emails) ==
    [kind |-> kind, id |-> id, first_name |-> first_name, email |-> email,
     emails |-> emails]

NoWrite == PendingWrite("none", 0, "", "", {})

IdleRequest ==
    [pc |-> "idle", op |-> "", id |-> 0, first_name |-> "", email |-> "",
     conn |-> "none", pend |-> NoWrite, status |-> 0, msg |-> "",
     student |-> NoStudent]

\* return jsonify(...), status, after "finally: if conn: conn.close()"
StudentReturn(q, status, msg, student) ==
    [q EXCEPT !.pc = "done", !.status = status, !.msg = msg,
              !.student = student, !.pend = NoWrite,
              !.conn = IF q.conn = "open" THEN "closed" ELSE q.conn]

\* Mutant: the connection is closed at the end of the try block only.
StudentError_NoFinally(q, status, msg) ==
    [q EXCEPT !.pc = "done", !.status = status, !.msg = msg,
              !.pend = NoWrite]

\* except ...: conn.rollback(); return jsonify({"error": msg}), status
StudentError(q, status, msg) == StudentReturn(q, status, msg, NoStudent)

\* add_student validates the body before it opens a connection.
StudentReceive(w, r) ==
    /\ req[w].pc = "idle"
    /\ LET q == [req[w] EXCEPT !.op = r.op, !.id = r.id,
                               !.first_name = r.first_name,
                               !.email = r.email]
       IN req' = [req EXCEPT ![w] =
                    IF r.op = "add" /\ r.email = MISSING
                      THEN StudentReturn(q, 400,
                              "First name, last name, and email are required.",
                              NoStudent)
                      ELSE [q EXCEPT !.pc = "connect"]]
    /\ UNCHANGED <<now, advances, mainVars, stubVars, corsVars, keyVars, students, nextId>>

\* get_db_connection returns None when psycopg2.connect raises.
get_db_connection(w) ==
    /\ req[w].pc = "connect"
    /\ \E ok \in BOOLEAN :
          req' = [req EXCEPT ![w] =
                    IF ok THEN [@ EXCEPT !.pc = "execute", !.conn = "open"]
                          ELSE StudentReturn(@, 500,
                                  "Database connection failed", NoStudent)]
    /\ UNCHANGED <<now, advances, mainVars, stubVars, corsVars, keyVars, students, nextId>>

HasStudent(id) == \E i \in 1..Len(students) : students[i].id = id

StudentById(id) ==
    students[CHOOSE i \in 1..Len(students) : students[i].id = id]

\* Mutant: the table has no unique index on email.
EmailTaken_NoIndex(email, id) == FALSE

\* UNIQUE (email): another committed row holds the email
EmailTaken(email, id) ==
    \E i \in 1..Len(students) :
        students[i].email = email /\ students[i].id # id

\* The statement waits for a transaction in progress that holds the row or
\* the unique-index entry it needs.
StudentBlocked(w) ==
    \E v \in Requests \ {w} :
        /\ req[v].pend.kind \notin {"none", "noop"}
        /\ \/ req[w].op \in {"add", "update"}
              /\ req[w].email \in req[v].pend.emails
           \/ req[w].op \in {"update", "delete"}
              /\ req[w].id = req[v].pend.id

\* cur.execute(...) of add_student, update_student, delete_student
StudentStatement(q) ==
    CASE q.op = "add" ->
           IF EmailTaken(q.email, 0)
             THEN StudentError(q, 409, "Email already exists.")
             ELSE [q EXCEPT !.pc = "commit",
                            !.pend = PendingWrite("insert", nextId,
                                        q.first_name, q.email, {q.email})]
      [] q.op = "update" ->
           IF ~HasStudent(q.id)
             THEN [q EXCEPT !.pc = "commit",
                            !.pend = PendingWrite("noop", 0, "", "", {})]
           ELSE IF EmailTaken(q.email, q.id)
             THEN StudentError(q, 409,
                               "Email already exists for another student.")
             ELSE [q EXCEPT !.pc = "commit",
                            !.pend = PendingWrite("update", q.id,
                                        q.first_name, q.email,
                                        {q.email, StudentById(q.id).email})]
      [] q.op = "delete" ->
           IF ~HasStudent(q.id)
             THEN [q EXCEPT !.pc = "commit",
                            !.pend = PendingWrite("noop", 0, "", "", {})]
             ELSE [q EXCEPT !.pc = "commit",
                            !.pend = PendingWrite("delete", q.id, "", "",
                                        {StudentById(q.id).email})]
      [] OTHER ->
           IF HasStudent(q.id)
             THEN StudentReturn(q, 200, "", StudentById(q.id))
             ELSE StudentReturn(q, 404, "Student not found", NoStudent)

\* The statement runs, or raises; nextval of the sequence is not rolled back.
StudentExecute(w) ==
    /\ req[w].pc = "execute"
    /\ ~StudentBlocked(w)
    /\ \E ok \in BOOLEAN :
          IF ok
            THEN /\ req' = [req EXCEPT ![w] = StudentStatement(@)]
                 /\ nextId' = IF req[w].op = "add" THEN nextId + 1 ELSE nextId
            ELSE /\ req' = [req EXCEPT ![w] =
                               StudentError(@, 500, "Internal server error")]
                 /\ nextId' = nextId
    /\ UNCHANGED <<now, advances, mainVars, stubVars, corsVars, keyVars, students>>

RECURSIVE WithoutStudent(_, _)
WithoutStudent(rows, id) ==
    IF rows = <<>> THEN <<>>
    ELSE IF Head(rows).id = id THEN WithoutStudent(Tail(rows), id)
    ELSE <<Head(rows)>> \o WithoutStudent(Tail(rows), id)

\* The table after the pending statement is committed
ApplyStudentWrite(w) ==
    CASE w.kind = "insert" ->
           Append(students, StudentRow(w.id, w.first_name, w.email))
      [] w.kind = "update" ->
           [i \in 1..Len(students) |->
               IF students[i].id = w.id
                 THEN StudentRow(w.id, w.first_name, w.email)
                 ELSE students[i]]
      [] w.kind = "delete" -> WithoutStudent(students, w.id)
      [] OTHER -> students

\* The row RETURNING gave, as the response shows it
ReturnedStudent(q) == StudentRow(q.pend.id, q.pend.first_name, q.pend.email)

\* conn.commit() and the return that follows it
StudentCommitted(q) ==
    CASE q.op = "add" -> StudentReturn(q, 201, "", ReturnedStudent(q))
      [] q.pend.kind = "noop" ->
           StudentReturn(q, 404, "Student not found", NoStudent)
      [] q.op = "update" -> StudentReturn(q, 200, "", ReturnedStudent(q))
      [] OTHER ->
           StudentReturn(q, 200, "Student deleted successfully", NoStudent)

StudentCommit(w) ==
    /\ req[w].pc = "commit"
    /\ \E ok \in BOOLEAN :
          IF ok
            THEN /\ students' = ApplyStudentWrite(req[w].pend)
                 /\ req' = [req EXCEPT ![w] = StudentCommitted(@)]
            ELSE /\ students' = students
                 /\ req' = [req EXCEPT ![w] =
                               StudentError(@, 500, "Internal server error")]
    /\ UNCHANGED <<now, advances, mainVars, stubVars, corsVars, keyVars,
                   nextId>>

----------------------------------------------------------------------------
\* Specifications

NoAppResponse == AppResponse("", NoCookie, 0, 0, "", "", FALSE, NoSetCookie)

Init ==
    /\ now = 0
    /\ advances = 0
    /\ descope_client \in BOOLEAN
    /\ users = <<>>
    /\ login = [p \in Logins |-> IdleLogin]
    /\ issued = {}
    /\ jar = NoCookie
    /\ lastResp = NoAppResponse
    /\ stubEnv \in {"production"}
    /\ stubIssued = {}
    /\ stubJar = NoCookie
    /\ stubResp = NoStubResponse
    /\ students = <<>>
    /\ nextId = 1
    /\ req = [w \in Requests |-> IdleRequest]
    /\ preflight = NoPreflight
    /\ keyCache = NoKeySet
    /\ keyCall = [c \in Callers |-> IdleCall]
    /\ jwks = 1

\* Concurrent logins: every login request is handled by a thread of its own.
Next ==
    \/ \E p \in Logins, b \in Bodies : LoginReceive(p, b)
    \/ \E p \in Logins : LoginConnect(p)
    \/ \E p \in Logins : LoginSelect(p)
    \/ \E p \in Logins : LoginWrite(p)
    \/ \E p \in Logins : LoginCommit(p)
    \/ \E p \in Logins : LoginIssue(p)
    \/ Tick

Spec == Init /\ [][Next]_vars

\* A request of the browser is in flight.
InFlight == \E p \in Logins : login[p].pc \notin {"idle", "done"}

\* One browser, one request at a time: logins (at most MaxSessions of them
\* succeed), guarded requests and logouts with any cookie, over the lifetime
\* of a session credential.  A request is answered in far less than that.
SessionNext ==
    \/ \E b \in Bodies :
          /\ Cardinality(issued) < MaxSessions
          /\ LoginReceive(1, b)
    \/ LoginConnect(1)
    \/ LoginSelect(1)
    \/ LoginWrite(1)
    \/ LoginCommit(1)
    \/ LoginIssue(1)
    \/ LoginNext(1)
    \/ \E c \in Cookies : ~InFlight /\ Guard(c)
    \/ \E c \in LogoutCookies : ~InFlight /\ Logout(c)
    \/ Tick
    \/ ~InFlight /\ Sleep

SessionSpec == Init /\ [][SessionNext]_vars

StubInit ==
    /\ now = 0
    /\ advances = 0
    /\ descope_client = TRUE
    /\ users = <<>>
    /\ login = [p \in Logins |-> IdleLogin]
    /\ issued = {}
    /\ jar = NoCookie
    /\ lastResp = NoAppResponse
    /\ stubEnv \in {"production", "development"}
    /\ stubIssued = {}
    /\ stubJar = NoCookie
    /\ stubResp = NoStubResponse
    /\ students = <<>>
    /\ nextId = 1
    /\ req = [w \in Requests |-> IdleRequest]
    /\ preflight = NoPreflight
    /\ keyCache = NoKeySet
    /\ keyCall = [c \in Callers |-> IdleCall]
    /\ jwks = 1

StubNext ==
    \/ \E h \in AuthHeaders : StubLogin(h)
    \/ \E c \in StubCookies : StubProtected(c)
    \/ \E c \in StubCookies : StubLogout(c)
    \/ Tick
    \/ StubSleep

StubSpec == StubInit /\ [][StubNext]_vars

\* Logins one after the other, of a user who comes back and of another user.
ReturningNext ==
    \/ \E b \in ReturningBodies :
          /\ Cardinality(issued) <= MaxSessions
          /\ LoginReceive(1, b)
    \/ LoginConnect(1)
    \/ LoginSelect(1)
    \/ LoginWrite(1)
    \/ LoginCommit(1)
    \/ LoginIssue(1)
    \/ LoginNext(1)
    \/ Tick

ReturningSpec == Init /\ [][ReturningNext]_vars

\* Guarded requests and logouts arrive while a login of the same browser is
\* being handled (another tab).
BrowsingNext ==
    \/ \E b \in Bodies :
          /\ Cardinality(issued) < MaxSessions
          /\ LoginReceive(1, b)
    \/ LoginConnect(1)
    \/ LoginSelect(1)
    \/ LoginWrite(1)
    \/ LoginCommit(1)
    \/ LoginIssue(1)
    \/ LoginNext(1)
    \/ \E c \in Cookies : Guard(c)
    \/ \E c \in LogoutCookies : Logout(c)
    \/ Tick

BrowsingSpec == Init /\ [][BrowsingNext]_vars

\* A page of any origin makes the browser send preflights, guarded requests
\* and logouts.
CorsNext ==
    \/ \E o \in Origins : Preflight(o)
    \/ \E c \in Cookies : Guard(c)
    \/ \E c \in LogoutCookies : Logout(c)
    \/ Tick

CorsSpec == Init /\ [][CorsNext]_vars

\* Verifications on several threads ask the cache for keys while time passes
\* and the provider rotates its keys.
KeyCacheNext ==
    \/ \E c \in Callers : GetKeys(c)
    \/ \E c \in Callers : FetchKeys(c)
    \/ \E c \in Callers : KeyCallReturn(c)
    \/ RotateKeys
    \/ Tick
    \/ KeySleep

KeyCacheSpec == Init /\ [][KeyCacheNext]_vars

\* The students table holds what earlier requests left in it.
StudentsInit ==
    /\ now = 0
    /\ advances = 0
    /\ descope_client = TRUE
    /\ users = <<>>
    /\ login = [p \in Logins |-> IdleLogin]
    /\ issued = {}
    /\ jar = NoCookie
    /\ lastResp = NoAppResponse
    /\ stubEnv = "production"
    /\ stubIssued = {}
    /\ stubJar = NoCookie
    /\ stubResp = NoStubResponse
    /\ students \in {<<>>, <<StudentRow(1, "Ann", "a@b.com")>>,
                      <<StudentRow(1, "Ann", "a@b.com"),
                        StudentRow(2, "Cy", "c@d.com")>>}
    /\ nextId = Len(students) + 1
    /\ req = [w \in Requests |-> IdleRequest]
    /\ preflight = NoPreflight
    /\ keyCache = NoKeySet
    /\ keyCall = [c \in Callers |-> IdleCall]
    /\ jwks = 1

\* Concurrent requests to /students: each is handled by a thread of its own.
StudentsNext ==
    \/ \E w \in Requests, r \in StudentRequests : StudentReceive(w, r)
    \/ \E w \in Requests : get_db_connection(w)
    \/ \E w \in Requests : StudentExecute(w)
    \/ \E w \in Requests : StudentCommit(w)

StudentsSpec == StudentsInit /\ [][StudentsNext]_vars

----------------------------------------------------------------------------
\* Properties

Max(S) == CHOOSE x \in S : \A y \in S : y <= x

\* The logins all carried the valid token of subject usr_123, are answered,
\* and no storage call of theirs failed for a reason of its own.
AllLoggedIn ==
    /\ descope_client
    /\ \A p \in Logins :
          /\ login[p].pc = "done"
          /\ login[p].body = ValidToken
          /\ ~login[p].fault

UsersOf(id) == {i \in DOMAIN users : users[i].descope_user_id = id}

\* C1: after concurrent logins with valid tokens for one subject, in every
\* interleaving, the users table holds exactly one record for the subject and
\* its last_login_at is the timestamp of the most recent of those logins.
C1_OneRecordLatestLogin ==
    AllLoggedIn =>
        /\ Cardinality(UsersOf(ValidToken.sub)) = 1
        /\ \A i \in UsersOf(ValidToken.sub) :
              users[i].last_login_at = Max({login[p].ts : p \in Logins})

\* C2: the create-or-refresh is one atomic insert-or-update step, so that a
\* login with a valid token is never answered 500 merely because another
\* login for the same subject ran concurrently: it is answered 500 only when
\* a storage call failed for a reason of its own.
C2_AtomicUpsert ==
    \A p \in Logins :
        (/\ descope_client
         /\ login[p].pc = "done"
         /\ login[p].body = ValidToken
         /\ ~login[p].fault)
            => login[p].resp.status = 200

\* C3: a login that does not end in success sets no sessionToken cookie; the
\* cookie is set only on a response with status 200.
C3_NoCookieOnFailure ==
    \A p \in Logins :
        /\ login[p].resp.cookie # NoSetCookie
              => (login[p].pc = "done" /\ login[p].resp.status = 200)
        /\ (login[p].pc = "done" /\ login[p].failure # "none")
              => (login[p].resp.cookie = NoSetCookie
                    /\ login[p].resp.status # 200)

C3_Witness ==
    \E p, q \in Logins :
        /\ login[p].pc = "done"
        /\ login[p].failure = "storage"
        /\ login[p].resp.cookie = NoSetCookie
        /\ login[q].resp.status = 200
        /\ login[q].resp.cookie # NoSetCookie

\* C4: a login response issues a session credential for subject S only after
\* the external token was verified and the user-record write for S was
\* committed in that request; S then has a committed user record.
C4_IssuedAfterVerifyAndCommit ==
    \A p \in Logins :
        login[p].resp.cookie # NoSetCookie =>
            /\ login[p].body.kind = "token"
            /\ login[p].body.verdict = "valid"
            /\ login[p].sub = login[p].body.sub
            /\ login[p].resp.cookie.value.payload.sub = login[p].sub
            /\ login[p].committed
            /\ SelectUser(users, login[p].sub)

C4_Witness ==
    \E p \in Logins :
        /\ login[p].resp.status = 200
        /\ login[p].resp.cookie # NoSetCookie
        /\ login[p].committed
        /\ login[p].user

\* C5: the protected handler body is reached only when the request carries a
\* sessionToken cookie whose verification succeeds; a request with no cookie,
\* an invalid cookie or an expired cookie is answered 401 without reaching it.
C5_GuardOnlyWithVerifiedCookie ==
    /\ lastResp.endpoint = "user-data" =>
          IF /\ lastResp.cookie.form = "jwt"
             /\ JwtDecode(lastResp.cookie, APP_SECRET_KEY, lastResp.at).ok
            THEN TRUE
            ELSE lastResp.status = 401 /\ ~lastResp.reached
    /\ stubResp.endpoint = "protected" =>
          IF /\ stubResp.cookieIn.form = "jwt"
             /\ JwtDecode(stubResp.cookieIn, JWT_SECRET, stubResp.at).ok
            THEN TRUE
            ELSE stubResp.status = 401 /\ ~stubResp.reached

\* C6: a session credential issued by the server whose expiry instant is in
\* the past is answered 401 'Session expired', never 'Invalid session token'.
C6_ExpiredIsSessionExpired ==
    (/\ lastResp.endpoint = "user-data"
     /\ lastResp.cookie \in issued
     /\ lastResp.cookie.payload.exp * TicksPerSecond < lastResp.at)
        => /\ lastResp.status = 401
           /\ lastResp.msg = "Session expired, please log in again."
           /\ ~lastResp.reached

C6_Witness ==
    /\ lastResp.endpoint = "user-data"
    /\ lastResp.cookie \in issued
    /\ lastResp.cookie.payload.exp * TicksPerSecond < lastResp.at
    /\ lastResp.msg = "Session expired, please log in again."

\* The credential does not carry the server's signature of its payload.
BadSignature(c) ==
    /\ c.form = "jwt"
    /\ c.sig # HS256(APP_SECRET_KEY, c.payload)

\* C7: a credential that was tampered with or signed with another key is
\* answered 401 'Invalid session token', whatever its claims and its expiry.
C7_TamperedIsSessionInvalid ==
    (lastResp.endpoint = "user-data" /\ BadSignature(lastResp.cookie))
        => /\ lastResp.status = 401
           /\ lastResp.msg = "Invalid session token."
           /\ ~lastResp.reached

\* A forgery of an issued credential whose expiry lies ahead, rejected as
\* invalid.
C7_Witness ==
    /\ lastResp.endpoint = "user-data"
    /\ BadSignature(lastResp.cookie)
    /\ \E c \in issued : lastResp.cookie \in Forgeries(c)
    /\ ~JwtExpired(lastResp.cookie.payload.exp, lastResp.at)
    /\ lastResp.msg = "Invalid session token."

\* C8: round trip.  The credential a login issues for a valid external token
\* verifies (before its expiry) to the subject and email of that token, and
\* the greeting of the protected resource names that email.
C8_RoundTrip ==
    /\ \A p \in Logins :
          login[p].resp.status = 200 =>
              LET d == JwtDecode(login[p].resp.cookie.value, APP_SECRET_KEY,
                                 login[p].issuedAt)
              IN /\ d.ok
                 /\ d.payload.sub = login[p].body.sub
                 /\ d.payload.email = login[p].body.email
                 /\ (/\ lastResp.endpoint = "user-data"
                     /\ lastResp.cookie = login[p].resp.cookie.value
                     /\ lastResp.status = 200)
                        => lastResp.email = login[p].body.email
    /\ (lastResp.endpoint = "user-data" /\ lastResp.status = 200) =>
          \E b \in Bodies :
              /\ b.verdict = "valid"
              /\ lastResp.cookie.payload.sub = b.sub
              /\ lastResp.cookie.payload.email = b.email
              /\ lastResp.email = b.email

C8_Witness ==
    \E p \in Logins :
        /\ login[p].resp.status = 200
        /\ lastResp.endpoint = "user-data"
        /\ lastResp.cookie = login[p].resp.cookie.value
        /\ lastResp.status = 200
        /\ lastResp.email = "a@b.com"

\* The guard's answer to the credential that login p issued
GuardOf(p) ==
    /\ login[p].resp.status = 200
    /\ lastResp.endpoint = "user-data"
    /\ lastResp.cookie = login[p].resp.cookie.value

\* C9: a credential issued at instant t carries the expiry t + 24h, its
\* cookie has Max-Age 86400, and presented at instant u it is accepted if and
\* only if u is before t + 24h, and rejected as expired from t + 24h on.
C9_ExpiryAtIssuePlus24h ==
    \A p \in Logins :
        LET deadline == login[p].issuedAt + 86400 * TicksPerSecond IN
        /\ login[p].resp.status = 200 =>
              /\ login[p].resp.cookie.value.payload.exp * TicksPerSecond = deadline
              /\ login[p].resp.cookie.max_age = 86400
        /\ GuardOf(p) =>
              /\ lastResp.status = 200 <=> lastResp.at < deadline
              /\ lastResp.status # 200 =>
                    lastResp.msg = "Session expired, please log in again."

\* C9 as amended: the expiry is the issue instant cut to whole seconds, plus
\* 24h; the credential is accepted if and only if it is presented before that
\* instant, and rejected as expired from that instant on.
C9_ExpiryAtWholeSecondPlus24h ==
    \A p \in Logins :
        LET deadline ==
                ((login[p].issuedAt \div TicksPerSecond) + 86400) * TicksPerSecond
        IN
        /\ login[p].resp.status = 200 =>
              /\ login[p].resp.cookie.value.payload.exp * TicksPerSecond = deadline
              /\ login[p].resp.cookie.max_age = 86400
        /\ GuardOf(p) =>
              /\ lastResp.status = 200 <=> lastResp.at < deadline
              /\ lastResp.status # 200 =>
                    /\ lastResp.status = 401
                    /\ lastResp.msg = "Session expired, please log in again."

\* A credential issued within a second, presented before 24h have passed
\* since its issue, and rejected as expired.
C9_Witness ==
    \E p \in Logins :
        /\ GuardOf(p)
        /\ login[p].issuedAt % TicksPerSecond # 0
        /\ lastResp.at < login[p].issuedAt + 86400 * TicksPerSecond
        /\ lastResp.status = 401
        /\ lastResp.msg = "Session expired, please log in again."

\* C10: logout revokes nothing.  A credential issued by a successful login is
\* accepted by the guard until its expiry instant, whatever logins and logouts
\* came before, a logout carrying that same credential included.
C10_LogoutRevokesNothing ==
    (/\ lastResp.endpoint = "user-data"
     /\ lastResp.cookie \in issued
     /\ ~JwtExpired(lastResp.cookie.payload.exp, lastResp.at))
        => /\ lastResp.status = 200
           /\ lastResp.reached
           /\ lastResp.email = lastResp.cookie.payload.email

\* The guard accepts the credential that the logout just before it carried,
\* after the browser has dropped it.
C10_Witness ==
    /\ lastResp.endpoint = "user-data"
    /\ lastResp.afterLogout
    /\ lastResp.cookie \in issued
    /\ jar = NoCookie
    /\ lastResp.status = 200


\* A Set-Cookie header that makes the browser discard sessionToken
DiscardsSession(c) ==
    /\ c.name = "sessionToken"
    /\ c.value = EmptyCookie
    /\ c.max_age = 0

\* C11: logout always answers 200 and tells the client to discard the
\* sessionToken cookie, whatever cookie the request carries; it leaves the
\* browser without a cookie and the server's state untouched, so a logout of
\* a browser that a logout has just left changes nothing more.
C11_LogoutAlways200Idempotent ==
    [][ /\ (lastResp' # lastResp /\ lastResp'.endpoint = "logout") =>
              /\ lastResp'.status = 200
              /\ DiscardsSession(lastResp'.setCookie)
              /\ jar' = NoCookie
              /\ UNCHANGED <<descope_client, users, login, issued>>
              /\ jar = NoCookie => jar' = jar
        /\ (stubResp' # stubResp /\ stubResp'.endpoint = "logout") =>
              /\ stubResp'.status = 200
              /\ DiscardsSession(stubResp'.cookie)
              /\ stubJar' = NoCookie
              /\ UNCHANGED stubIssued
              /\ stubJar = NoCookie => stubJar' = stubJar
      ]_vars

\* A logout that carries an expired credential.
C11_Witness ==
    /\ lastResp.endpoint = "logout"
    /\ lastResp.cookie \in issued
    /\ JwtExpired(lastResp.cookie.payload.exp, lastResp.at)
    /\ lastResp.status = 200
    /\ jar = NoCookie

\* C12: when a storage step of a login fails, the transaction is rolled back,
\* the response is 500 and the login has changed nothing in the users table.
C12_StorageFailureRollsBack ==
    [][ \A p \in Logins :
          (login'[p].failure = "storage" /\ login[p].failure # "storage") =>
              /\ login'[p].pc = "done"
              /\ login'[p].resp.status = 500
              /\ login'[p].resp.cookie = NoSetCookie
              /\ login'[p].pend = "none"
              /\ login'[p].conn # "open"
              /\ ~login'[p].committed
              /\ users' = users
      ]_vars

\* A login whose commit or write failed after another login had created the
\* record: the record is as that other login left it.
C12_Witness ==
    \E p, q \in Logins :
        /\ login[p].failure = "storage"
        /\ login[p].conn = "closed"
        /\ login[p].resp.status = 500
        /\ login[q].committed
        /\ Len(users) = 1
        /\ users[1].last_login_at = login[q].ts


\* C13: a request that has been answered holds no open database connection:
\* the connection a handler opened is closed on every path to its return.
C13_ConnectionsClosed ==
    /\ \A w \in Requests :
          req[w].pc \in {"idle", "done"} => req[w].conn # "open"
    /\ \A p \in Logins :
          login[p].pc \in {"idle", "issue", "done"} => login[p].conn # "open"

\* Every request has been answered; one left through the UniqueViolation
\* handler and one through the generic exception handler, both after
\* opening a connection.
C13_Witness ==
    /\ \A w \in Requests : req[w].pc = "done"
    /\ \E w, v \in Requests :
          /\ req[w].status = 409
          /\ req[w].conn = "closed"
          /\ req[v].status = 500
          /\ req[v].conn = "closed"


\* C14: for logins made one after the other, the first successful login of a
\* subject appends its record with created_at = last_login_at; a later
\* successful login of the subject answers 200, keeps the number of records,
\* moves last_login_at forward to its own timestamp and leaves every other
\* column, and every other record, as it was.
C14_LaterLoginOnlyTouchesLastSeen ==
    [][ /\ users' # users =>
              \E p \in Logins :
                  /\ login[p].pc = "commit"
                  /\ login'[p].committed
                  /\ IF UsersOf(login[p].sub) = {}
                       THEN /\ Len(users') = Len(users) + 1
                            /\ SubSeq(users', 1, Len(users)) = users
                            /\ LET r == users'[Len(users')]
                               IN /\ r.descope_user_id = login[p].sub
                                  /\ r.email = login[p].email
                                  /\ r.name = login[p].name
                                  /\ r.created_at = login[p].ts
                                  /\ r.last_login_at = r.created_at
                       ELSE /\ Len(users') = Len(users)
                            /\ \A i \in DOMAIN users :
                                  IF users[i].descope_user_id = login[p].sub
                                    THEN /\ users'[i] =
                                              [users[i] EXCEPT
                                                 !.last_login_at = login[p].ts]
                                         /\ users'[i].last_login_at >=
                                              users[i].last_login_at
                                    ELSE users'[i] = users[i]
        /\ \A p \in Logins :
              (login'[p].pc = "done" /\ login'[p].user /\ ~login'[p].fault)
                  => login'[p].resp.status = 200
      ]_vars

\* The user of usr_123 came back later with a token that carries a new email
\* and name, after another user had logged in: the login was answered 200
\* and the record still has the email and name of the first login.
C14_Witness ==
    /\ login[1].pc = "done"
    /\ login[1].body = RenamedToken
    /\ login[1].resp.status = 200
    /\ Len(users) = 2
    /\ \E i \in UsersOf("usr_123") :
          /\ users[i].email = ValidToken.email
          /\ users[i].name = ValidToken.name
          /\ users[i].created_at < users[i].last_login_at
          /\ users[i].last_login_at = login[1].ts


\* C15: a preflight whose Origin is not in the allow-list is refused with 403
\* and no Access-Control-Allow-Origin header; the header is sent only to an
\* origin of the allow-list and then repeats that origin.
C15_PreflightAllowList ==
    preflight.status # 0 =>
        /\ preflight.origin # FRONTEND_URL =>
              /\ preflight.status = 403
              /\ preflight.allowOrigin = NoHeader
        /\ preflight.allowOrigin # NoHeader =>
              /\ preflight.origin = FRONTEND_URL
              /\ preflight.allowOrigin = preflight.origin


\* An external token that fails a check of the verifier
RejectedToken(b) ==
    /\ b.kind = "token"
    /\ \/ b.verdict # "valid"
       \/ b.sub = MISSING
       \/ b.email = MISSING

\* C16: a login whose external token fails a check of the verifier (bad
\* structure, bad signature, expired, no subject or no email claim) is
\* answered 401, with no user-record write and no session credential.
C16_RejectedTokenIs401 ==
    \A p \in Logins :
        (descope_client /\ login[p].pc = "done"
           /\ RejectedToken(login[p].body)) =>
            /\ login[p].resp.status = 401
            /\ login[p].resp.cookie = NoSetCookie
            /\ ~login[p].committed

\* C17: a login request that carries no external token (no JSON body, no
\* sessionToken field, or an empty one) is answered 400 before the verifier
\* and the storage are used, with no cookie.
C17_NoTokenIs400 ==
    \A p \in Logins :
        (descope_client /\ login[p].pc = "done"
           /\ login[p].body.kind \in {"nojson", "nofield", "empty"}) =>
            /\ login[p].resp.status = 400
            /\ login[p].failure = "no_token"
            /\ login[p].conn = "none"
            /\ login[p].resp.cookie = NoSetCookie

\* C18: the response to a failed login or a failed guarded request is
\* generic: two rejected external tokens get the same status and body, with
\* no detail of the verifier's reason; a rejected session credential gets
\* the body of its error class and nothing of the credential.
C18_GenericFailureBody ==
    /\ \A p, q \in Logins :
          (login[p].failure = "verification"
             /\ login[q].failure = "verification") =>
              /\ login[p].resp.status = login[q].resp.status
              /\ login[p].resp.body = login[q].resp.body
              /\ login[p].resp.body.details = ""
    /\ (lastResp.endpoint = "user-data" /\ lastResp.status # 200) =>
          /\ lastResp.email = ""
          /\ lastResp.msg \in {"Unauthorized",
                                "Session expired, please log in again.",
                                "Invalid session token."}

\* C19: every response that sets the sessionToken cookie to a credential
\* sets it HttpOnly, Secure and SameSite=Lax, whatever the configuration.
C19_SessionCookieSecure ==
    /\ \A p \in Logins :
          login[p].resp.cookie # NoSetCookie =>
              /\ login[p].resp.cookie.httponly
              /\ login[p].resp.cookie.secure
              /\ login[p].resp.cookie.samesite = "Lax"
    /\ (stubResp.cookie # NoSetCookie /\ stubResp.cookie.value.form = "jwt") =>
          /\ stubResp.cookie.httponly
          /\ stubResp.cookie.secure
          /\ stubResp.cookie.samesite = "Lax"


\* C20: a getKeys call made while a key set fetched at fetchedAt is cached
\* and now - fetchedAt is less than the freshness window returns that cached
\* set, makes no network fetch, and leaves the cached set and its fetchedAt
\* unchanged.
C20_CacheHitNoFetch ==
    [][ \A c \in Callers :
          (/\ keyCall[c].pc = "idle"
           /\ keyCall'[c].pc # "idle"
           /\ keyCache.present
           /\ now - keyCache.fetchedAt < FRESHNESS_WINDOW * TicksPerSecond) =>
              /\ keyCall'[c].pc = "done"
              /\ ~keyCall'[c].failed
              /\ keyCall'[c].result = keyCache.keys
              /\ keyCall'[c].fetches = 0
              /\ keyCache' = keyCache
      ]_vars

\* A call on the last tick of the freshness window, after the provider has
\* rotated its keys: it returned the cached set without a fetch.
C20_Witness ==
    \E c \in Callers :
        /\ keyCall[c].pc = "done"
        /\ keyCall[c].fetches = 0
        /\ keyCache.present
        /\ keyCall[c].result = keyCache.keys
        /\ jwks # keyCache.keys
        /\ now - keyCache.fetchedAt = FRESHNESS_WINDOW * TicksPerSecond - 1


\* The getKeys calls whose network fetch is in progress
Fetching == {c \in Callers : keyCall[c].pc = "fetching"}

\* C21: when the cached key set is stale or absent and several callers need
\* keys at once, one network fetch is in progress and the callers share it;
\* the cached set and its fetchedAt are replaced together, so no caller sees
\* one without the other.
C21_SingleFlightRefetch ==
    /\ Cardinality(Fetching) <= 1
    /\ \/ keyCache = NoKeySet
       \/ /\ keyCache.present
          /\ keyCache.keys \in 1..MaxKeySets
          /\ keyCache.fetchedAt <= now


\* C22: a guarded request, whatever its cookie, and a logout open no
\* database connection and leave the users table and every transaction in
\* progress as they were; a change of the users table is the commit of a
\* login.
C22_GuardAndLogoutLeaveStorage ==
    [][ /\ lastResp' # lastResp => UNCHANGED <<users, login>>
        /\ users' # users =>
              \E p \in Logins :
                  /\ login[p].pc = "commit"
                  /\ login'[p].committed
      ]_vars

\* A guarded request was answered 200 while a login held an open connection
\* with an uncommitted write; the table still has the one record.
C22_Witness ==
    /\ lastResp.endpoint = "user-data"
    /\ lastResp.status = 200
    /\ lastResp.at = now
    /\ login[1].pc = "commit"
    /\ login[1].conn = "open"
    /\ login[1].ts = now
    /\ Len(users) = 1


\* No two rows of students have the same email, or the same id.
UniqueEmails ==
    \A i, j \in 1..Len(students) :
        i # j => /\ students[i].email # students[j].email
                 /\ students[i].id # students[j].id

\* The statement of request q would give two students the same email.
DuplicatesEmail(q) ==
    \/ q.op = "add" /\ EmailTaken(q.email, 0)
    \/ q.op = "update" /\ HasStudent(q.id) /\ EmailTaken(q.email, q.id)

\* The statement of request q names an id that no student has.
NoSuchStudent(q) == q.op \in {"update", "delete"} /\ ~HasStudent(q.id)

\* C23: a POST or PUT whose statement would give two students the same email
\* is answered 409 (500 when the database itself fails), with its transaction
\* rolled back and the table unchanged; no two students ever share an email;
\* a PUT or DELETE of an id that no student has changes nothing and is
\* answered 404 (500 when the database itself fails).
C23_UniqueEmailAnd404 ==
    /\ []UniqueEmails
    /\ [][ \A w \in Requests :
             /\ (req[w].pc = "execute" /\ req'[w].pc # "execute"
                   /\ DuplicatesEmail(req[w])) =>
                    /\ req'[w].pc = "done"
                    /\ req'[w].status \in {409, 500}
                    /\ req'[w].pend = NoWrite
                    /\ req'[w].conn = "closed"
                    /\ students' = students
             /\ (req[w].pc = "execute" /\ req'[w].pc # "execute"
                   /\ NoSuchStudent(req[w])) =>
                    /\ students' = students
                    /\ \/ req'[w].pend.kind = "noop"
                       \/ req'[w].status = 500
             /\ (req[w].pc = "commit" /\ req'[w].pc # "commit"
                   /\ req[w].pend.kind = "noop") =>
                    /\ req'[w].pc = "done"
                    /\ req'[w].status \in {404, 500}
                    /\ students' = students
         ]_vars

\* Two students are stored; a PUT that would have given the second one the
\* email of the first was answered 409, and a DELETE of an id that no
\* student has was answered 404.
C23_Witness ==
    /\ Len(students) = 2
    /\ \E w, v \in Requests :
          /\ req[w].pc = "done"
          /\ req[w].op = "update"
          /\ req[w].status = 409
          /\ req[w].email = students[1].email
          /\ req[w].id = students[2].id
          /\ req[v].pc = "done"
          /\ req[v].op = "delete"
          /\ req[v].status = 404

====
